---- MODULE Spec2Model ----
(***************************************************************************)
(* A model of backend/utils/audio.py: normalize_audio, blend_audio_tracks, *)
(* apply_formant_shift, apply_voice_effects and validate_reference_audio.  *)
(*                                                                         *)
(* Numbers.  A sample is a record: a finite value on a fixed-point grid    *)
(* (Unit grid steps make 1.0), NaN, +Infinity or -Infinity.  float32 is    *)
(* coarser than the float64 a caller may pass: the float32 values are the  *)
(* multiples of F32Step, and every float32 conversion and float32 result   *)
(* rounds to that grid (ties to even).  The float range is taken as        *)
(* unbounded: the inputs are small, no finite operation overflows.         *)
(***************************************************************************)
EXTENDS Integers, Sequences, FiniteSets, TLC

VARIABLES call, pc, processed, steps, result

vars == <<call, pc, processed, steps, result>>

-----------------------------------------------------------------------------
(* The number grid *)

Unit == 10 * 10 * 10
F32Step == 1 + 1
\* square roots are carried with RmsScale extra steps per grid step
RmsScale == 4 * 4

Fin(v) == [kind |-> "fin", v |-> v]
NaN == [kind |-> "nan", v |-> 0]
PosInf == [kind |-> "inf", v |-> 1]
NegInf == [kind |-> "inf", v |-> -1]

IsFinite(s) == s.kind = "fin"
IsNaN(s) == s.kind = "nan"
IsInf(s) == s.kind = "inf"

Abs(n) == IF n < 0 THEN -n ELSE n
Min(a, b) == IF a < b THEN a ELSE b
Max(a, b) == IF a > b THEN a ELSE b

\* n / d for d > 0, rounded to the nearest integer, ties to even
RoundDiv(n, d) ==
    LET q == n \div d
        r == n % d
    IN  IF 2 * r < d THEN q
        ELSE IF 2 * r > d THEN q + 1
        ELSE IF q % 2 = 0 THEN q ELSE q + 1

\* the float32 value nearest to n / d grid steps
RoundF32(n, d) == F32Step * RoundDiv(n, d * F32Step)

RECURSIVE IsqrtFrom(_, _, _)
IsqrtFrom(n, lo, hi) ==
    IF lo >= hi THEN lo
    ELSE LET mid == (lo + hi + 1) \div 2
         IN  IF mid * mid <= n THEN IsqrtFrom(n, mid, hi)
             ELSE IsqrtFrom(n, lo, mid - 1)

\* floor of the square root of n >= 0
Isqrt(n) == IsqrtFrom(n, 0, Min(n, 46340))

-----------------------------------------------------------------------------
(* numpy primitives on sample sequences *)

\* the same sequence, its elements computed once
Computed(x) == SubSeq(x, 1, Len(x))

\* ndarray.astype(np.float32) / np.asarray(x, dtype=np.float32).flatten()
ToFloat32(s) == IF IsFinite(s) THEN Fin(RoundF32(s.v, 1)) ELSE s

astype_float32(audio) == Computed([i \in DOMAIN audio |-> ToFloat32(audio[i])])

RECURSIVE SumSquares(_, _, _)
\* the sum of audio[lo..hi]**2, by halves (numpy's pairwise summation)
SumSquares(audio, lo, hi) ==
    IF lo > hi THEN 0
    ELSE IF lo = hi THEN audio[lo].v * audio[lo].v
    ELSE LET mid == (lo + hi) \div 2
         IN  SumSquares(audio, lo, mid) + SumSquares(audio, mid + 1, hi)

\* np.sqrt(np.mean(audio**2)), in 1/RmsScale grid steps when finite.
\* The mean of an empty array is NaN; a NaN sample makes it NaN; an
\* infinite sample (and no NaN) makes it +Infinity.
Rms(audio) ==
    IF Len(audio) = 0 THEN NaN
    ELSE IF \E i \in DOMAIN audio : IsNaN(audio[i]) THEN NaN
    ELSE IF \E i \in DOMAIN audio : IsInf(audio[i]) THEN PosInf
    ELSE LET total == SumSquares(audio, 1, Len(audio))
             n == Len(audio)
         IN  Fin(Isqrt((total \div n) * RmsScale * RmsScale
                       + ((total % n) * RmsScale * RmsScale) \div n))

\* rms > 0: false for NaN
RmsPositive(rms) == IsInf(rms) \/ (IsFinite(rms) /\ rms.v > 0)

\* 10**(target_db / 20) in grid steps, for target_db a multiple of 20
TargetRms(target_db) ==
    IF target_db >= 0 THEN Unit * 10 ^ (target_db \div 20)
    ELSE Unit \div 10 ^ ((-target_db) \div 20)

ApplyGainInverted(s, target_rms, rms) ==
    IF IsNaN(s) THEN NaN
    ELSE IF IsInf(rms) THEN s
    ELSE IF IsInf(s) THEN s
    ELSE Fin(RoundF32(s.v * rms.v, target_rms * RmsScale))

\* sample * (target_rms / rms) for rms > 0.  An infinite rms gives gain 0:
\* 0 * finite = 0, 0 * infinity = NaN.
ApplyGain(s, target_rms, rms) ==
    IF IsNaN(s) THEN NaN
    ELSE IF IsInf(rms) THEN (IF IsFinite(s) THEN Fin(0) ELSE NaN)
    ELSE IF IsInf(s) THEN s
    ELSE Fin(RoundF32(s.v * target_rms * RmsScale, rms.v))

\* np.clip on one sample: NaN stays NaN, an infinity goes to the bound
ClipSample(s, lo, hi) ==
    IF IsNaN(s) THEN NaN
    ELSE IF IsInf(s) THEN (IF s.v > 0 THEN Fin(hi) ELSE Fin(lo))
    ELSE Fin(Min(Max(s.v, lo), hi))

\* np.pad(x, (0, n)): n trailing zeros
PadZeros(x, n) == x \o [i \in 1..n |-> Fin(0)]

-----------------------------------------------------------------------------
(* normalize_audio *)

DefaultTargetDb == -20
DefaultPeakLimit == (85 * Unit) \div 100

\* lines 28-39: the float32 conversion and the gain, before the peak limiter
GainStage(audio, target_db) ==
    LET a32 == astype_float32(audio)
        rms == Rms(a32)
        target_rms == TargetRms(target_db)
    IN  IF RmsPositive(rms)
        THEN Computed([i \in DOMAIN a32 |-> ApplyGain(a32[i], target_rms, rms)])
        ELSE a32

PeakLimitNoClip(audio, peak_limit) == audio

\* line 42: np.clip(audio, -peak_limit, peak_limit), the bounds as float32
PeakLimit(audio, peak_limit) ==
    LET limit == RoundF32(peak_limit, 1)
    IN  Computed([i \in DOMAIN audio |-> ClipSample(audio[i], -limit, limit)])

normalize_audio(audio, target_db, peak_limit) ==
    PeakLimit(GainStage(audio, target_db), peak_limit)

-----------------------------------------------------------------------------
(* blend_audio_tracks *)

WeightUnit == 10 * 10

\* line 109: float(np.clip(secondary_weight, 0.0, 1.0))
ClipWeight(secondary_weight) == Min(Max(secondary_weight, 0), WeightUnit)

\* weight * sample, a float32 product
Scale(s, weight) ==
    IF ~IsFinite(s) THEN (IF weight = 0 THEN NaN
                          ELSE IF IsNaN(s) THEN NaN
                          ELSE IF weight > 0 THEN s
                          ELSE [kind |-> "inf", v |-> -s.v])
    ELSE Fin(RoundF32(s.v * weight, WeightUnit))

\* float32 sum of two samples
AddSamples(a, b) ==
    IF IsNaN(a) \/ IsNaN(b) THEN NaN
    ELSE IF IsInf(a) /\ IsInf(b) THEN (IF a.v = b.v THEN a ELSE NaN)
    ELSE IF IsInf(a) THEN a
    ELSE IF IsInf(b) THEN b
    ELSE Fin(a.v + b.v)

BlendLengthMin(primary, secondary) == Min(Len(primary), Len(secondary))

\* line 112: max_len
BlendLength(primary, secondary) == Max(Len(primary), Len(secondary))

\* np.pad with a negative width raises; a width is never negative here
PadTo(x, n) == IF n >= Len(x) THEN PadZeros(x, n - Len(x)) ELSE SubSeq(x, 1, n)

blend_audio_tracks(primary_audio, secondary_audio, secondary_weight) ==
    LET primary == astype_float32(primary_audio)
        secondary == astype_float32(secondary_audio)
    IN  IF Len(primary) = 0 /\ Len(secondary) = 0 THEN <<>>
        ELSE IF Len(primary) = 0
        THEN normalize_audio(secondary, DefaultTargetDb, DefaultPeakLimit)
        ELSE IF Len(secondary) = 0
        THEN normalize_audio(primary, DefaultTargetDb, DefaultPeakLimit)
        ELSE LET weight_secondary == ClipWeight(secondary_weight)
                 weight_primary == WeightUnit - weight_secondary
                 max_len == BlendLength(primary, secondary)
                 primary_padded == PadTo(primary, max_len)
                 secondary_padded == PadTo(secondary, max_len)
                 mixed == [i \in 1..max_len |->
                             AddSamples(Scale(primary_padded[i], weight_primary),
                                        Scale(secondary_padded[i], weight_secondary))]
             IN  normalize_audio(mixed, DefaultTargetDb, DefaultPeakLimit)

-----------------------------------------------------------------------------
(* apply_formant_shift.  The forward and inverse transforms are librosa's.  *)
(* The forward transform's answer is the environment's: a grid stft[t][k]   *)
(* (frame t, frequency bin k) of complex cells in polar form.  A cell's     *)
(* magnitude m > 0 is kept as ln m in 1/LogUnit steps, so np.log and np.exp *)
(* are exact on it; m = 0 is the flag zero.                                 *)

LogUnit == 10 * 10 * 10
FactorUnit == 10 * 10 * 10 * 10
\* 1e-3, as a factor and as a number of semitones
Negligible == FactorUnit \div 1000
\* ln(1e-7) = -16.118
LnFloor == 0 - ((16118 * LogUnit) \div 1000)

n_fft == 1024
hop_length == 256
DefaultWindowSize == 31

Cell(zero, ln, phase) == [zero |-> zero, ln |-> ln, phase |-> phase]

\* frames of a centred transform of n samples
FrameCount(n) == 1 + (n \div hop_length)

\* magnitude.size == 0 or not np.any(magnitude)
NoMagnitude(stft) ==
    \/ Len(stft) = 0
    \/ \A t \in DOMAIN stft : \A k \in DOMAIN stft[t] : stft[t][k].zero

\* np.log(np.maximum(magnitude, 1e-7)) of one cell
LogMagnitude(c) == IF c.zero THEN LnFloor ELSE Max(c.ln, LnFloor)

RECURSIVE WindowSum(_, _, _)
WindowSum(frame, lo, hi) ==
    IF lo > hi THEN 0
    ELSE (IF lo \in DOMAIN frame THEN frame[lo] ELSE 0) + WindowSum(frame, lo + 1, hi)

\* np.convolve(frame, ones(window_size) / window_size, mode="same") for an
\* odd window no longer than the frame
ConvolveSame(frame, window_size) ==
    LET half == (window_size - 1) \div 2
    IN  Computed([k \in DOMAIN frame |->
                    RoundDiv(WindowSum(frame, k - half, k + half), window_size)])

_smooth_log_spectral_envelope(log_magnitude, window_size) ==
    IF window_size < 3 THEN log_magnitude
    ELSE LET odd == IF window_size % 2 = 0 THEN window_size + 1 ELSE window_size
         IN  Computed([t \in DOMAIN log_magnitude |-> ConvolveSame(log_magnitude[t], odd)])

\* np.interp(i / factor, arange(bins), envelope, left=envelope[0],
\* right=envelope[-1]) for the 0-based bin i; envelope is 1-based here
InterpAt(envelope, i, factor) ==
    LET bins == Len(envelope)
        num == i * FactorUnit
    IN  IF factor < 0 \/ i = 0 THEN envelope[1]
        ELSE LET lo == num \div factor
                 rem == num % factor
             IN  IF lo >= bins - 1 THEN envelope[bins]
                 ELSE envelope[lo + 1]
                      + RoundDiv((envelope[lo + 2] - envelope[lo + 1]) * rem, factor)

ClipFactorNone(shift_factor) == shift_factor

\* line 161: float(np.clip(shift_factor, 0.7, 1.4))
ClipFactor(shift_factor) ==
    Min(Max(shift_factor, (7 * FactorUnit) \div 10), (14 * FactorUnit) \div 10)

\* lines 173-194: the warped spectrogram handed to the inverse transform
ShiftedStft(stft_matrix, factor) ==
    LET log_magnitude == Computed([t \in DOMAIN stft_matrix |->
                            Computed([k \in DOMAIN stft_matrix[t] |->
                                        LogMagnitude(stft_matrix[t][k])])])
        envelope == _smooth_log_spectral_envelope(log_magnitude, DefaultWindowSize)
    IN  Computed([t \in DOMAIN stft_matrix |->
            Computed([k \in DOMAIN stft_matrix[t] |->
                LET residual == log_magnitude[t][k] - envelope[t][k]
                    shifted_envelope == InterpAt(envelope[t], k - 1, factor)
                IN  Cell(FALSE, shifted_envelope + residual, stft_matrix[t][k].phase)])])

\* One sample of the inverse transform: a fixed function of the grid that
\* stands for librosa.istft (overlap-add of the frames around the sample).
IstftSample(stft, i) ==
    LET t == Min(Len(stft), 1 + ((i - 1) \div hop_length))
        k == 1 + ((i - 1) % Len(stft[t]))
        c == stft[t][k]
        m == IF c.zero THEN 0 ELSE (Max(0, c.ln - LnFloor) \div 16)
    IN  Fin(RoundF32(IF c.phase = 0 THEN m ELSE -m, 1))

\* librosa.istft(stft, hop_length=hop, length=length): exactly length
\* samples; length < 0 stands for length=None, hop * (frames - 1) samples
Istft(stft, hop, length) ==
    LET n == IF length < 0 THEN hop * (Len(stft) - 1) ELSE length
    IN  Computed([i \in 1..n |-> IstftSample(stft, i)])

IstftLengthUnset(source) == -1

\* line 199: length=len(source)
IstftLength(source) == Len(source)

apply_formant_shift(audio, sample_rate, shift_factor, stft_matrix) ==
    LET source == astype_float32(audio)
        factor == ClipFactor(shift_factor)
    IN  IF Len(source) = 0 THEN source
        ELSE IF Abs(factor - FactorUnit) < Negligible THEN source
        ELSE IF NoMagnitude(stft_matrix) THEN source
        ELSE Istft(ShiftedStft(stft_matrix, factor), hop_length, IstftLength(source))

-----------------------------------------------------------------------------
(* apply_voice_effects: its pure parts.  librosa.effects.pitch_shift is the *)
(* environment's: it answers with a signal of the input's length that may   *)
(* carry numeric defects.                                                   *)

HasShiftInclusive(value, neutral) == Abs(value - neutral) >= Negligible

\* lines 227-228: abs(float(value) - neutral) > 1e-3
HasShift(value, neutral) == Abs(value - neutral) > Negligible

has_formant_shift(formant_shift) == HasShift(formant_shift, FactorUnit)
has_pitch_shift(pitch_shift_semitones) == HasShift(pitch_shift_semitones, 0)

\* what librosa.effects.pitch_shift may answer for x
PitchShifted(x, answer) ==
    CASE answer = "same" -> x
      [] answer = "halved" ->
            [i \in DOMAIN x |-> IF IsFinite(x[i]) THEN Fin(RoundF32(x[i].v, 2)) ELSE x[i]]
      [] answer = "nan" -> [i \in DOMAIN x |-> IF i = 1 THEN NaN ELSE x[i]]
      [] answer = "posinf" -> [i \in DOMAIN x |-> IF i = 1 THEN PosInf ELSE x[i]]
      [] answer = "neginf" -> [i \in DOMAIN x |-> IF i = Len(x) THEN NegInf ELSE x[i]]

NanToNumNone(x) == x

\* line 247: np.nan_to_num(processed, nan=0.0, posinf=0.0, neginf=0.0)
NanToNum(x) == Computed([i \in DOMAIN x |-> IF IsFinite(x[i]) THEN x[i] ELSE Fin(0)])

StageAfterSwapped(stage, formant_shift, pitch_shift_semitones) ==
    CASE stage = "enter" ->
            IF has_formant_shift(formant_shift) THEN "formant"
            ELSE IF has_pitch_shift(pitch_shift_semitones) THEN "pitch"
            ELSE "normalize"
      [] stage = "formant" ->
            IF has_pitch_shift(pitch_shift_semitones) THEN "pitch" ELSE "normalize"
      [] stage = "pitch" -> "normalize"
      [] stage = "normalize" -> "sanitize"
      [] stage = "sanitize" -> "return"

\* lines 233-248: the statement that runs after `stage` on the effect path
StageAfter(stage, formant_shift, pitch_shift_semitones) ==
    CASE stage = "enter" ->
            IF has_formant_shift(formant_shift) THEN "formant"
            ELSE IF has_pitch_shift(pitch_shift_semitones) THEN "pitch"
            ELSE "sanitize"
      [] stage = "formant" ->
            IF has_pitch_shift(pitch_shift_semitones) THEN "pitch" ELSE "sanitize"
      [] stage = "pitch" -> "sanitize"
      [] stage = "sanitize" -> "normalize"
      [] stage = "normalize" -> "return"

-----------------------------------------------------------------------------
(* validate_reference_audio.  load_audio is librosa's: the environment      *)
(* either raises with a message or answers a mono float32 clip at the       *)
(* requested rate.  Durations are counted in 1/TicksPerSecond seconds.      *)

DefaultSampleRate == 24000
TicksPerSecond == DefaultSampleRate
\* 0.99
ClippingLevel == (99 * Unit) \div 100

Returned(is_valid, has_reason, reason) ==
    [raised |-> FALSE, is_valid |-> is_valid, has_reason |-> has_reason, reason |-> reason]
Raised(message) ==
    [raised |-> TRUE, is_valid |-> FALSE, has_reason |-> TRUE, reason |-> message]

LoadFailed(message) == [ok |-> FALSE, message |-> message, audio |-> <<>>, sr |-> 0]
Loaded(audio, sr) == [ok |-> TRUE, message |-> "", audio |-> audio, sr |-> sr]

\* len(audio) / sr, in ticks
Duration(audio, sr) == (Len(audio) * TicksPerSecond) \div sr

RmsBelowOrEqual(rms, min_rms) == IsFinite(rms) /\ rms.v <= min_rms * RmsScale

\* rms < min_rms: false for NaN
RmsBelow(rms, min_rms) == IsFinite(rms) /\ rms.v < min_rms * RmsScale

RECURSIVE MaxAbs(_, _)
MaxAbs(audio, n) ==
    IF n = 1 THEN Abs(audio[1].v) ELSE Max(Abs(audio[n].v), MaxAbs(audio, n - 1))

TooShort(min_duration) ==
    "Audio too short (minimum " \o ToString(min_duration) \o " seconds)"
TooLong(max_duration) ==
    "Audio too long (maximum " \o ToString(max_duration) \o " seconds)"
TooQuiet == "Audio is too quiet or silent"
Clipping == "Audio is clipping (reduce input gain)"

\* lines 270-285: the body of the try block
ValidateBody(loaded, min_duration, max_duration, min_rms) ==
    IF ~loaded.ok THEN Raised(loaded.message)
    ELSE LET audio == loaded.audio
             duration == Duration(audio, loaded.sr)
         IN  IF duration < min_duration THEN Returned(FALSE, TRUE, TooShort(min_duration))
             ELSE IF duration > max_duration
             THEN Returned(FALSE, TRUE, TooLong(max_duration))
             ELSE IF RmsBelow(Rms(audio), min_rms) THEN Returned(FALSE, TRUE, TooQuiet)
             ELSE IF Len(audio) = 0
             THEN Raised("zero-size array to reduction operation maximum which has no identity")
             ELSE IF MaxAbs(audio, Len(audio)) > ClippingLevel
             THEN Returned(FALSE, TRUE, Clipping)
             ELSE Returned(TRUE, FALSE, "")

HandlerLoadOnly(outcome, loaded) ==
    IF outcome.raised /\ ~loaded.ok
    THEN Returned(FALSE, TRUE, "Error validating audio: " \o outcome.reason)
    ELSE outcome

\* lines 286-287: except Exception as e
Handler(outcome, loaded) ==
    IF outcome.raised
    THEN Returned(FALSE, TRUE, "Error validating audio: " \o outcome.reason)
    ELSE outcome

validate_reference_audio(loaded, min_duration, max_duration, min_rms) ==
    Handler(ValidateBody(loaded, min_duration, max_duration, min_rms), loaded)

-----------------------------------------------------------------------------
(* Inputs *)

MaxLen == 2
TailLen == 399

\* float64 sample values a caller may pass (odd values are not float32 values)
SampleValues ==
    {Fin(0), Fin(3), Fin(50), Fin(-400), Fin(995), Fin(1000), NaN, PosInf, NegInf}

RECURSIVE SeqsUpTo(_, _)
SeqsUpTo(S, n) ==
    IF n = 0 THEN {<<>>}
    ELSE LET shorter == SeqsUpTo(S, n - 1)
         IN  shorter \cup {Append(s, x) : s \in {t \in shorter : Len(t) = n - 1}, x \in S}

\* one loud sample followed by a long quiet tail
SpikeSignal(spike, tail) == <<Fin(spike)>> \o [i \in 1..TailLen |-> Fin(tail)]

LongSignals == {SpikeSignal(1000, 20), SpikeSignal(1000, 0), SpikeSignal(100, 100)}

Signals == SeqsUpTo(SampleValues, MaxLen) \cup LongSignals

TargetDbs == {-40, -20, 0}
PeakLimits == {2, 501, DefaultPeakLimit, Unit}
Weights == {-50, 0, 25, 50, 100, 150}

BlendSignals == SeqsUpTo({Fin(0), Fin(3), Fin(-400), Fin(1000)}, MaxLen)

ShiftFactors == {-5000, 5000, 7000, 9990, 9995, 10000, 10010, 10011, 12000, 14000, 20000}
FormantSignals ==
    SeqsUpTo({Fin(0), Fin(3), Fin(50)}, MaxLen) \cup {SpikeSignal(1000, 20)}

FreqBins == 33
StftPatterns == {"empty", "silent", "bump", "slope"}

\* what librosa.stft may answer for a signal of n samples
StftAnswer(pattern, n) ==
    CASE pattern = "empty" -> <<>>
      [] pattern = "silent" ->
            Computed([t \in 1..FrameCount(n) |->
                        Computed([k \in 1..FreqBins |-> Cell(TRUE, 0, 0)])])
      [] pattern = "bump" ->
            Computed([t \in 1..FrameCount(n) |-> Computed([k \in 1..FreqBins |->
                IF k = 1 THEN Cell(TRUE, 0, 0)
                ELSE Cell(FALSE, (IF k \in 5..9 THEN 2000 ELSE -3000) + 100 * t, k % 2)])])
      [] pattern = "slope" ->
            Computed([t \in 1..FrameCount(n) |-> Computed([k \in 1..FreqBins |->
                Cell(FALSE, 1000 - 700 * k, (k + t) % 2)])])

EffectSignals ==
    SeqsUpTo({Fin(0), Fin(3), Fin(50), NaN}, MaxLen)
        \cup {<<PosInf>>, SpikeSignal(1000, 20)}
FormantShifts == {5000, 9990, 9995, 10000, 10010, 10011, 12000, 20000}
PitchShifts == {0, 10, 11, -20000}
EffectStftPatterns == {"silent", "bump", "slope"}
PitchAnswers == {"same", "halved", "nan", "posinf", "neginf"}

MaxClipLen == 3
Clips == SeqsUpTo({Fin(0), Fin(10), Fin(100), Fin(990), Fin(996)}, MaxClipLen)
LoadMessages == {"", "No such file", "Format not recognised"}
LoadAnswers ==
    {LoadFailed(m) : m \in LoadMessages} \cup {Loaded(a, DefaultSampleRate) : a \in Clips}
MinDurations == {0, 1, 2}
MaxDurations == {1, 2, 3}
MinRmsLevels == {0, 10, 990}

-----------------------------------------------------------------------------
(* The state machine: one call at a time *)

NoCall == [op |-> "none"]

Init ==
    /\ call = NoCall
    /\ pc = "idle"
    /\ processed = <<>>
    /\ steps = <<>>
    /\ result = <<>>

CallNormalize ==
    /\ pc = "idle"
    /\ \E audio \in Signals, target_db \in TargetDbs, peak_limit \in PeakLimits :
        /\ call' = [op |-> "normalize_audio", audio |-> audio,
                    target_db |-> target_db, peak_limit |-> peak_limit]
        /\ result' = normalize_audio(audio, target_db, peak_limit)
    /\ pc' = "done"
    /\ UNCHANGED <<processed, steps>>

CallBlend ==
    /\ pc = "idle"
    /\ \E primary \in BlendSignals, secondary \in BlendSignals, weight \in Weights :
        /\ call' = [op |-> "blend_audio_tracks", primary_audio |-> primary,
                    secondary_audio |-> secondary, secondary_weight |-> weight]
        /\ result' = blend_audio_tracks(primary, secondary, weight)
    /\ pc' = "done"
    /\ UNCHANGED <<processed, steps>>

CallFormantShift ==
    /\ pc = "idle"
    /\ \E audio \in FormantSignals, shift_factor \in ShiftFactors,
          pattern \in StftPatterns :
        LET stft == StftAnswer(pattern, Len(audio))
        IN  /\ call' = [op |-> "apply_formant_shift", audio |-> audio,
                        sample_rate |-> DefaultSampleRate,
                        shift_factor |-> shift_factor, stft |-> stft]
            /\ result' = apply_formant_shift(audio, DefaultSampleRate, shift_factor, stft)
    /\ pc' = "done"
    /\ UNCHANGED <<processed, steps>>

CallValidate ==
    /\ pc = "idle"
    /\ \E loaded \in LoadAnswers, min_duration \in MinDurations,
          max_duration \in MaxDurations, min_rms \in MinRmsLevels :
        /\ call' = [op |-> "validate_reference_audio", loaded |-> loaded,
                    min_duration |-> min_duration, max_duration |-> max_duration,
                    min_rms |-> min_rms]
        /\ result' = validate_reference_audio(loaded, min_duration, max_duration, min_rms)
    /\ pc' = "done"
    /\ UNCHANGED <<processed, steps>>

\* apply_voice_effects, lines 223-231: the conversion and the early returns
EffectsEnter ==
    /\ pc = "idle"
    /\ \E audio \in EffectSignals, pitch \in PitchShifts, formant \in FormantShifts :
        LET converted == astype_float32(audio)
            through == \/ Len(converted) = 0
                       \/ (~has_formant_shift(formant) /\ ~has_pitch_shift(pitch))
        IN  /\ call' = [op |-> "apply_voice_effects", audio |-> audio,
                        sample_rate |-> DefaultSampleRate,
                        pitch_shift_semitones |-> pitch, formant_shift |-> formant]
            /\ processed' = converted
            /\ pc' = IF through THEN "done" ELSE StageAfter("enter", formant, pitch)
            /\ result' = IF through THEN converted ELSE result
    /\ steps' = <<>>

Step(name, input, output) == [name |-> name, input |-> input, output |-> output]

\* lines 233-238
EffectsFormant ==
    /\ pc = "formant"
    /\ \E pattern \in EffectStftPatterns :
        LET out == apply_formant_shift(processed, call.sample_rate, call.formant_shift,
                                       StftAnswer(pattern, Len(processed)))
        IN  /\ processed' = out
            /\ steps' = Append(steps, Step("formant", processed, out))
    /\ pc' = StageAfter("formant", call.formant_shift, call.pitch_shift_semitones)
    /\ UNCHANGED <<call, result>>

\* lines 240-245
EffectsPitch ==
    /\ pc = "pitch"
    /\ \E answer \in PitchAnswers :
        LET out == astype_float32(PitchShifted(processed, answer))
        IN  /\ processed' = out
            /\ steps' = Append(steps, Step("pitch", processed, out))
    /\ pc' = StageAfter("pitch", call.formant_shift, call.pitch_shift_semitones)
    /\ UNCHANGED <<call, result>>

\* line 247
EffectsSanitize ==
    /\ pc = "sanitize"
    /\ LET out == astype_float32(NanToNum(processed))
       IN  /\ processed' = out
           /\ steps' = Append(steps, Step("sanitize", processed, out))
    /\ pc' = StageAfter("sanitize", call.formant_shift, call.pitch_shift_semitones)
    /\ UNCHANGED <<call, result>>

\* line 248, up to the call's value
EffectsNormalize ==
    /\ pc = "normalize"
    /\ LET out == normalize_audio(processed, DefaultTargetDb, DefaultPeakLimit)
       IN  /\ processed' = out
           /\ steps' = Append(steps, Step("normalize", processed, out))
    /\ pc' = StageAfter("normalize", call.formant_shift, call.pitch_shift_semitones)
    /\ UNCHANGED <<call, result>>

\* line 248: return
EffectsReturn ==
    /\ pc = "return"
    /\ result' = processed
    /\ pc' = "done"
    /\ UNCHANGED <<call, processed, steps>>

\* the call has returned; the functions keep nothing between calls
Return ==
    /\ pc = "done"
    /\ call' = NoCall
    /\ pc' = "idle"
    /\ processed' = <<>>
    /\ steps' = <<>>
    /\ result' = <<>>

Next ==
    \/ CallNormalize
    \/ CallBlend
    \/ CallFormantShift
    \/ CallValidate
    \/ EffectsEnter
    \/ EffectsFormant
    \/ EffectsPitch
    \/ EffectsSanitize
    \/ EffectsNormalize
    \/ EffectsReturn
    \/ Return

Spec == Init /\ [][Next]_vars

\* the same program, one entry point at a time
NormalizeNext == CallNormalize \/ Return
NormalizeSpec == Init /\ [][NormalizeNext]_vars

BlendNext == CallBlend \/ Return
BlendSpec == Init /\ [][BlendNext]_vars

FormantNext == CallFormantShift \/ Return
FormantSpec == Init /\ [][FormantNext]_vars

ClampNext == CallFormantShift \/ CallBlend \/ Return
ClampSpec == Init /\ [][ClampNext]_vars

ValidateNext == CallValidate \/ Return
ValidateSpec == Init /\ [][ValidateNext]_vars

EffectsNext ==
    \/ EffectsEnter
    \/ EffectsFormant
    \/ EffectsPitch
    \/ EffectsSanitize
    \/ EffectsNormalize
    \/ EffectsReturn
    \/ Return
EffectsSpec == Init /\ [][EffectsNext]_vars

-----------------------------------------------------------------------------
(* Properties *)

Done(op) == pc = "done" /\ call.op = op

AllFinite(x) == \A i \in DOMAIN x : IsFinite(x[i])

InRange(s, limit) == IsFinite(s) /\ -limit <= s.v /\ s.v <= limit

\* a small tolerance: two float32 steps
Tolerance == 2 * F32Step

Close(a, b) ==
    /\ Len(a) = Len(b)
    /\ \A i \in DOMAIN a :
        /\ a[i].kind = b[i].kind
        /\ IsFinite(a[i]) => Abs(a[i].v - b[i].v) <= Tolerance

Clamp(x, lo, hi) == Min(Max(x, lo), hi)

\* the identity case of apply_voice_effects, as the claim words it
BothNegligible ==
    /\ Abs(call.formant_shift - FactorUnit) <= Negligible
    /\ Abs(call.pitch_shift_semitones) <= Negligible

(* C1, as stated: when both effects are negligible the result of
   apply_voice_effects equals the input exactly, sample for sample, and no
   formant, pitch, sanitize or normalize step has run. *)
C1_ExactPassThrough ==
    Done("apply_voice_effects") /\ BothNegligible
        => result = call.audio /\ steps = <<>>

(* C1, amended: when both effects are negligible the result is the input
   converted to float32, sample for sample (the input itself when its
   samples are float32 values), and no step has run. *)
C1_Float32PassThrough ==
    Done("apply_voice_effects") /\ BothNegligible
        => /\ result = [i \in DOMAIN call.audio |-> ToFloat32(call.audio[i])]
           /\ steps = <<>>
           /\ ((\A i \in DOMAIN call.audio :
                    IsFinite(call.audio[i]) => call.audio[i].v % F32Step = 0)
                => result = call.audio)

C1_Witness ==
    /\ Done("apply_voice_effects")
    /\ BothNegligible
    /\ call.formant_shift # FactorUnit
    /\ call.pitch_shift_semitones # 0
    /\ Len(call.audio) > 0
    /\ AllFinite(call.audio)
    /\ result = call.audio
    /\ normalize_audio(result, DefaultTargetDb, DefaultPeakLimit) # result

\* apply_voice_effects went past its early returns
EffectPath == Len(steps) > 0

(* C2, as stated: for any input and any parameters, on every return path
   of apply_voice_effects no returned sample is NaN or an infinity. *)
C2_AlwaysFinite ==
    Done("apply_voice_effects") => AllFinite(result)

(* C2, amended: on the effect path no returned sample is NaN or an
   infinity, whatever the input; on the early returns (empty input,
   identity pass-through) the input comes back unsanitized, so a returned
   sample is NaN or an infinity exactly where the float32 input is. *)
C2_FiniteUnlessPassedThrough ==
    Done("apply_voice_effects")
        => /\ EffectPath => AllFinite(result)
           /\ ~EffectPath =>
                /\ Len(result) = Len(call.audio)
                /\ \A i \in DOMAIN result :
                        IsFinite(result[i]) <=> IsFinite(call.audio[i])

C2_Witness ==
    /\ Done("apply_voice_effects")
    /\ EffectPath
    /\ \E j \in DOMAIN steps :
        /\ steps[j].name = "sanitize"
        /\ ~AllFinite(steps[j].input)
    /\ AllFinite(result)
    /\ Len(result) > 0

PeakLimitInRange == 0 < call.peak_limit /\ call.peak_limit <= Unit

(* C3, as stated: for every input, every target_db and every peak_limit
   in (0, 1], each sample s of normalize_audio's output satisfies
   -peak_limit <= s <= peak_limit. *)
C3_WithinPeakLimit ==
    Done("normalize_audio") /\ PeakLimitInRange
        => \A i \in DOMAIN result : InRange(result[i], call.peak_limit)

(* C3, amended: for peak_limit in (0, 1] each output sample is NaN or lies
   in [-p, p], p being peak_limit rounded to float32 (the precision np.clip
   works in); it is NaN only where the input sample is NaN or an infinity,
   so a finite input gives an output within p. *)
C3_WithinPeakLimitOrNaN ==
    Done("normalize_audio") /\ PeakLimitInRange
        => /\ Len(result) = Len(call.audio)
           /\ \A i \in DOMAIN result :
                \/ InRange(result[i], RoundF32(call.peak_limit, 1))
                \/ IsNaN(result[i]) /\ ~IsFinite(call.audio[i])

C3_Witness ==
    /\ Done("normalize_audio")
    /\ PeakLimitInRange
    /\ AllFinite(call.audio)
    /\ \E i \in DOMAIN result :
        /\ GainStage(call.audio, call.target_db)[i].v > call.peak_limit
        /\ GainStage(call.audio, call.target_db)[i] # ToFloat32(call.audio[i])
        /\ result[i] = Fin(call.peak_limit)

\* the four conditions and the verdict, as the claim words them
ClipTooShort == Len(call.loaded.audio) * TicksPerSecond < call.min_duration * call.loaded.sr
ClipTooLong == Len(call.loaded.audio) * TicksPerSecond > call.max_duration * call.loaded.sr
\* RMS < min_rms, squared: mean(x^2) < min_rms^2
ClipTooQuiet ==
    SumSquares(call.loaded.audio, 1, Len(call.loaded.audio))
        < call.min_rms * call.min_rms * Len(call.loaded.audio)
ClipClipping ==
    \E i \in DOMAIN call.loaded.audio : Abs(call.loaded.audio[i].v) * 100 > 99 * Unit

FirstFailure ==
    IF ClipTooShort
    THEN [is_valid |-> FALSE, has_reason |-> TRUE,
          reason |-> "Audio too short (minimum " \o ToString(call.min_duration) \o " seconds)"]
    ELSE IF ClipTooLong
    THEN [is_valid |-> FALSE, has_reason |-> TRUE,
          reason |-> "Audio too long (maximum " \o ToString(call.max_duration) \o " seconds)"]
    ELSE IF ClipTooQuiet
    THEN [is_valid |-> FALSE, has_reason |-> TRUE, reason |-> "Audio is too quiet or silent"]
    ELSE IF ClipClipping
    THEN [is_valid |-> FALSE, has_reason |-> TRUE,
          reason |-> "Audio is clipping (reduce input gain)"]
    ELSE [is_valid |-> TRUE, has_reason |-> FALSE, reason |-> ""]

Verdict == [is_valid |-> result.is_valid, has_reason |-> result.has_reason,
            reason |-> result.reason]

(* C4, as stated: for a loaded clip the checks run in the order too short,
   too long, too quiet, clipping; the result is (false, reason of the first
   check that holds) and (true, null) exactly when none holds, values at a
   threshold being accepted. *)
C4_FirstFailureWins ==
    Done("validate_reference_audio") /\ call.loaded.ok
        => ~result.raised /\ Verdict = FirstFailure

(* C4, amended: the same, for a loaded clip of at least one sample (an
   empty clip that passes both duration checks has no peak: the peak
   computation fails and the result is the error result of C5). *)
C4_FirstFailureWinsNonEmpty ==
    Done("validate_reference_audio") /\ call.loaded.ok /\ Len(call.loaded.audio) > 0
        => ~result.raised /\ Verdict = FirstFailure

C4_Witness ==
    /\ Done("validate_reference_audio")
    /\ call.loaded.ok
    /\ ClipTooLong /\ ClipTooQuiet /\ ClipClipping
    /\ Verdict = FirstFailure
    /\ result.reason = TooLong(call.max_duration)

C4_WitnessAtThresholds ==
    /\ Done("validate_reference_audio")
    /\ call.loaded.ok
    /\ Len(call.loaded.audio) = call.min_duration
    /\ Len(call.loaded.audio) = call.max_duration
    /\ Rms(call.loaded.audio).v = call.min_rms * RmsScale
    /\ MaxAbs(call.loaded.audio, Len(call.loaded.audio)) = ClippingLevel
    /\ result.is_valid /\ ~result.has_reason

ErrorPrefix == "Error validating audio: "

(* C5: validate_reference_audio never lets an exception out: a failing
   loader gives (false, "Error validating audio: <message>"), a failure of
   a later step gives a result of the same form, and every call ends in
   (true, null) or in (false, a non-empty reason). *)
C5_NeverRaises ==
    Done("validate_reference_audio")
        => /\ ~result.raised
           /\ \/ result.is_valid /\ ~result.has_reason
              \/ ~result.is_valid /\ result.has_reason /\ Len(result.reason) > 0
           /\ ~call.loaded.ok
                => Verdict = [is_valid |-> FALSE, has_reason |-> TRUE,
                              reason |-> ErrorPrefix \o call.loaded.message]
           /\ (call.loaded.ok /\ Len(call.loaded.audio) = 0
                    /\ ~ClipTooShort /\ ~ClipTooLong)
                => /\ ~result.is_valid
                   /\ Len(result.reason) > Len(ErrorPrefix)
                   /\ SubSeq(result.reason, 1, Len(ErrorPrefix)) = ErrorPrefix

C5_Witness ==
    /\ Done("validate_reference_audio")
    /\ call.loaded.ok
    /\ Len(call.loaded.audio) = 0
    /\ ~result.raised /\ ~result.is_valid
    /\ result.reason # TooShort(call.min_duration)

C5_WitnessLoadFails ==
    /\ Done("validate_reference_audio")
    /\ ~call.loaded.ok
    /\ call.loaded.message = ""
    /\ result.reason = ErrorPrefix

(* C6: an out-of-range parameter is clamped: apply_formant_shift with
   factor f returns what it returns with f clamped to [0.7, 1.4], and
   blend_audio_tracks of two non-empty signals with weight w returns what it
   returns with w clamped to [0, 1]. *)
C6_ClampedParameters ==
    /\ Done("apply_formant_shift")
        => result = apply_formant_shift(call.audio, call.sample_rate,
                        Clamp(call.shift_factor, (7 * FactorUnit) \div 10,
                              (14 * FactorUnit) \div 10),
                        call.stft)
    /\ (Done("blend_audio_tracks") /\ Len(call.primary_audio) > 0
            /\ Len(call.secondary_audio) > 0)
        => result = blend_audio_tracks(call.primary_audio, call.secondary_audio,
                                       Clamp(call.secondary_weight, 0, WeightUnit))

\* apply_formant_shift ran the transform
Transformed ==
    /\ Len(call.audio) > 0
    /\ Abs(Clamp(call.shift_factor, (7 * FactorUnit) \div 10, (14 * FactorUnit) \div 10)
            - FactorUnit) >= Negligible
    /\ ~NoMagnitude(call.stft)

C6_Witness ==
    /\ Done("apply_formant_shift")
    /\ call.shift_factor > (14 * FactorUnit) \div 10
    /\ Transformed
    /\ result # astype_float32(call.audio)
    /\ result # apply_formant_shift(call.audio, call.sample_rate, FactorUnit + 2000,
                                     call.stft)

C6_WitnessBlend ==
    /\ Done("blend_audio_tracks")
    /\ call.secondary_weight > WeightUnit
    /\ Len(call.primary_audio) > 0 /\ Len(call.secondary_audio) > 0
    /\ result # blend_audio_tracks(call.primary_audio, call.secondary_audio, 50)
    /\ result = normalize_audio(PadTo(astype_float32(call.secondary_audio), Len(result)),
                                 DefaultTargetDb, DefaultPeakLimit)

(* C7: apply_formant_shift returns as many samples as it was given, on
   every return path: empty input, near-identity factor, empty or all-zero
   magnitude grid, full transform. *)
C7_SameSampleCount ==
    Done("apply_formant_shift") => Len(result) = Len(call.audio)

C7_Witness ==
    /\ Done("apply_formant_shift")
    /\ Transformed
    /\ Len(call.stft) > 1
    /\ Len(call.audio) # hop_length * (Len(call.stft) - 1)
    /\ Len(result) = Len(call.audio)

(* C8: blend_audio_tracks returns max(len(a), len(b)) samples; two empty
   signals give an empty output; when exactly one is empty the output is
   normalize_audio of the other, whatever the weight. *)
C8_BlendLength ==
    Done("blend_audio_tracks")
        => LET a == call.primary_audio
               b == call.secondary_audio
           IN  /\ Len(result) = Max(Len(a), Len(b))
               /\ (Len(a) = 0 /\ Len(b) = 0) => result = <<>>
               /\ (Len(a) = 0 /\ Len(b) > 0)
                    => result = normalize_audio(b, DefaultTargetDb, DefaultPeakLimit)
               /\ (Len(a) > 0 /\ Len(b) = 0)
                    => result = normalize_audio(a, DefaultTargetDb, DefaultPeakLimit)

C8_Witness ==
    /\ Done("blend_audio_tracks")
    /\ Len(call.primary_audio) > 0
    /\ Len(call.secondary_audio) > Len(call.primary_audio)
    /\ Len(result) = Len(call.secondary_audio)
    /\ result[Len(result)] # Fin(0)

C8_WitnessOneEmpty ==
    /\ Done("blend_audio_tracks")
    /\ Len(call.primary_audio) > 0
    /\ Len(call.secondary_audio) = 0
    /\ call.secondary_weight = WeightUnit
    /\ result # call.primary_audio
    /\ result[1] # Fin(0)

DefaultCall ==
    /\ Done("normalize_audio")
    /\ call.target_db = DefaultTargetDb
    /\ call.peak_limit = DefaultPeakLimit

\* the peak limiter changed a sample
FirstPassClipped == GainStage(call.audio, call.target_db) # result

(* C9, as stated: with the default parameters normalize_audio is
   idempotent within a small tolerance for every input, also when the first
   pass clips samples at the peak limit. *)
C9_Idempotent ==
    DefaultCall
        => Close(normalize_audio(result, DefaultTargetDb, DefaultPeakLimit), result)

(* C9, amended: with the default parameters normalize_audio is idempotent
   within a small tolerance for every input whose first pass clips no
   sample. *)
C9_IdempotentUnclipped ==
    DefaultCall /\ ~FirstPassClipped
        => Close(normalize_audio(result, DefaultTargetDb, DefaultPeakLimit), result)

C9_Witness ==
    /\ DefaultCall
    /\ ~FirstPassClipped
    /\ AllFinite(call.audio)
    /\ Len(call.audio) > 1
    /\ ~Close(result, call.audio)
    /\ Close(normalize_audio(result, DefaultTargetDb, DefaultPeakLimit), result)

StepNames == [j \in DOMAIN steps |-> steps[j].name]

ExpectedSteps ==
    (IF Abs(call.formant_shift - FactorUnit) > Negligible THEN <<"formant">> ELSE <<>>)
        \o (IF Abs(call.pitch_shift_semitones) > Negligible THEN <<"pitch">> ELSE <<>>)
        \o <<"sanitize", "normalize">>

(* C10: on the effect path (non-empty input, an effect not negligible)
   apply_voice_effects runs formant shift, pitch shift, sanitize, normalize
   in this order: the formant step iff |formant_shift - 1| > 1e-3, the pitch
   step iff |pitch_shift_semitones| > 1e-3, each at most once; each step
   receives the output of the step before it (the first one the float32
   input); sanitize and normalize run exactly once; the normalizer's output
   is returned. *)
C10_FixedOrder ==
    (Done("apply_voice_effects") /\ Len(call.audio) > 0 /\ ~BothNegligible)
        => /\ StepNames = ExpectedSteps
           /\ steps[1].input = [i \in DOMAIN call.audio |-> ToFloat32(call.audio[i])]
           /\ \A j \in 2..Len(steps) : steps[j].input = steps[j - 1].output
           /\ steps[Len(steps)].name = "normalize"
           /\ result = steps[Len(steps)].output

C10_Witness ==
    /\ Done("apply_voice_effects")
    /\ StepNames = <<"formant", "pitch", "sanitize", "normalize">>
    /\ steps[1].output # steps[1].input
    /\ steps[2].input = steps[1].output
    /\ steps[2].output # steps[2].input
    /\ result = steps[4].output

====
